---- MODULE Spec2Model ----
(***************************************************************************)
(* SPI slave exchange engine (spi_slave_device) and the SPI keyboard       *)
(* controller built on it (spi_kbd_device), as a state machine driven by   *)
(* line writes from the bus master and scancode pushes from the keyboard,  *)
(* and the interrupt aggregation of the board that hosts them (buri_state). *)
(***************************************************************************)
EXTENDS Integers, Naturals, Sequences, FiniteSets, TLC

\* ------------------------------------------------------------------ bounds
\* Clock transitions the master makes inside one selection.
MaxEdges == 36

\* Selections of the device in one run.
MaxSelects == 2

\* Values written to the select, clock and MOSI lines.
Levels == {0, 1}

\* Bytes the master shifts out on MOSI (read commands, the control codes
\* reset / peek / unknown, and a data byte).
MasterBytes == {0, 128, 129, 130}

\* Scancodes the AT keyboard delivers.
Scancodes == {28, 156}

\* Bytes the owner of a plain slave device arms with set_miso_byte.
TxBytes == {60, 156}

\* Integer levels a write-line callback can carry.
IntLevels == {0, 1, 2}

\* Clock transitions inside one selection when the lines carry any int.
MaxIntEdges == 18

\* Clock transitions inside one selection when every writer of MISO runs.
MaxMisoEdges == 17

\* Clock transitions inside one selection made through port A.
MaxPaEdges == 17

\* Bytes the CPU writes to port A of the VIA: clock in bit 0, MOSI in bit 1,
\* the number of the selected SPI device in bits 2..4.
PortBytes == 0..7 \cup {8, 17}

\* Interrupt source updates in one run.
MaxIrqWrites == 4

\* ------------------------------------------------------------------ state
VARIABLES
    kind,                \* "slave" (spi_slave_device) or "kbd" (spi_kbd_device)
    m_mode,              \* 0..3
    m_data_dir,          \* "SPI_MSB_FIRST" / "SPI_LSB_FIRST"
    m_selected,
    m_clk, m_mosi, m_miso,
    m_recv_byte, m_send_byte,
    m_recv_count, m_send_count,
    m_state,             \* keyboard protocol state
    m_last_scancode,
    m_scancode_reg_full,
    irq,                 \* level last written through m_write_irq
    \* what the bus master and the callbacks have observed
    edges,               \* clock edges handled in the current selection
    samples,             \* sample edges in the current selection
    sel_idle,            \* the clock was at its idle level when selected
    mosi_log,            \* MOSI levels held at the sample edges of the current group of 8
    miso_log,            \* MISO levels read at the sample edges of the current group of 8
    nevents,             \* calls of spi_slave_mosi_byte in the current selection
    handed,              \* byte passed to the last spi_slave_mosi_byte call
    armed,               \* byte last armed for transmission (-1: none)
    latched,             \* byte that was armed when the current group of 8 began
    first_byte,          \* byte handed over by the first exchange of the selection (-1: none)
    first_state,         \* protocol state left by the first exchange of the selection
    first_code,          \* m_last_scancode when the first exchange completed
    first_full,          \* m_scancode_reg_full when the first exchange completed
    first_clean,         \* read_clean when the first exchange completed
    read_clean,          \* a read command completed and nothing was pushed since
    pushed,              \* scancode last pushed and not yet read or reset (-1: none)
    desel_from,          \* protocol state in which the last deselect found the keyboard
    nsel,                \* selections so far
    \* the board (buri_state)
    m_irqs,              \* the flags of the m_irqs union, one bit each
    cpu_irq,             \* level last written to the CPU interrupt input
    cpu_writes,          \* calls of set_input_line on the CPU interrupt input
    irq_log,             \* the source updates so far, <<source, level>> each
    \* the earlier revision of the engine (spi_bus), run side by side
    bus,                 \* the spi_bus object
    dev_bytes,           \* <<selection, edge, byte>> handed over by spi_slave_device
    bus_bytes,           \* <<selection, edge, byte>> handed over by spi_bus
    \* the history the line writes leave behind
    desel_partial,       \* the last deselect came in the middle of a byte
    pa_prev,             \* port A byte written before the last one (-1: none)
    pa                   \* port A byte written last (-1: none)

devvars == <<kind, m_mode, m_data_dir, m_selected, m_clk, m_mosi, m_miso,
             m_recv_byte, m_send_byte, m_recv_count, m_send_count,
             m_state, m_last_scancode, m_scancode_reg_full, irq>>

obsvars == <<edges, samples, sel_idle, mosi_log, miso_log, nevents, handed,
             armed, latched, first_byte, first_state, first_code, first_full,
             first_clean, read_clean, pushed, desel_from,
             nsel>>

boardvars == <<m_irqs, cpu_irq, cpu_writes, irq_log>>

revvars == <<bus, dev_bytes, bus_bytes>>

histvars == <<desel_partial, pa_prev, pa>>

vars == <<devvars, obsvars, boardvars, revvars, histvars>>

\* The device object as one value, so that the handlers can be composed
\* in the order the code runs them.
Self ==
    [kind |-> kind, m_mode |-> m_mode, m_data_dir |-> m_data_dir,
     m_selected |-> m_selected, m_clk |-> m_clk, m_mosi |-> m_mosi,
     m_miso |-> m_miso, m_recv_byte |-> m_recv_byte,
     m_send_byte |-> m_send_byte, m_recv_count |-> m_recv_count,
     m_send_count |-> m_send_count, m_state |-> m_state,
     m_last_scancode |-> m_last_scancode,
     m_scancode_reg_full |-> m_scancode_reg_full, irq |-> irq]

Commit(d) ==
    /\ kind' = d.kind
    /\ m_mode' = d.m_mode
    /\ m_data_dir' = d.m_data_dir
    /\ m_selected' = d.m_selected
    /\ m_clk' = d.m_clk
    /\ m_mosi' = d.m_mosi
    /\ m_miso' = d.m_miso
    /\ m_recv_byte' = d.m_recv_byte
    /\ m_send_byte' = d.m_send_byte
    /\ m_recv_count' = d.m_recv_count
    /\ m_send_count' = d.m_send_count
    /\ m_state' = d.m_state
    /\ m_last_scancode' = d.m_last_scancode
    /\ m_scancode_reg_full' = d.m_scancode_reg_full
    /\ irq' = d.irq

\* ------------------------------------------------------- uint8_t helpers
Shl8(b) == (b * 2) % 256

Shr8(b) == b \div 2

TopBit(b) == (b \div 128) % 2

LowBit(b) == b % 2

BoolInt(b) == IF b THEN 1 ELSE 0

\* ------------------------------------------------------ spi_slave_device
cpol(d) == IF d.m_mode = 2 \/ d.m_mode = 3 THEN 1 ELSE 0

cpha(d) == IF d.m_mode = 1 \/ d.m_mode = 3 THEN 1 ELSE 0

set_miso(d, state) == [d EXCEPT !.m_miso = state]

\* set_miso_byte that drives the last bit of the byte instead of the first.
set_miso_byte_last_bit(d, send_byte) ==
    LET d1 == [d EXCEPT !.m_send_byte = send_byte]
    IN  IF d1.m_data_dir = "SPI_MSB_FIRST"
        THEN set_miso(d1, LowBit(d1.m_send_byte))
        ELSE set_miso(d1, IF TopBit(d1.m_send_byte) # 0 THEN 1 ELSE 0)

set_miso_byte(d, send_byte) ==
    LET d1 == [d EXCEPT !.m_send_byte = send_byte]
    IN  IF d1.m_data_dir = "SPI_MSB_FIRST"
        THEN set_miso(d1, IF TopBit(d1.m_send_byte) # 0 THEN 1 ELSE 0)
        ELSE set_miso(d1, LowBit(d1.m_send_byte))

read_miso(d) == d.m_miso

slave_device_reset(d) ==
    [d EXCEPT !.m_recv_count = 0, !.m_send_count = 0,
              !.m_recv_byte = 0, !.m_send_byte = 0]

\* ------------------------------------------------------- spi_kbd_device
kbd_device_reset(d) ==
    [slave_device_reset(d) EXCEPT !.m_state = "NOT_SELECTED",
                                  !.m_scancode_reg_full = FALSE,
                                  !.m_last_scancode = 0,
                                  !.irq = 0]

\* control whose code 0x00 answers without resetting the controller.
control_noreset(d, ctrl_byte) ==
    CASE ctrl_byte = 1 -> [dev |-> d,
                           ret |-> IF d.m_scancode_reg_full THEN 0 ELSE 255]
      [] OTHER         -> [dev |-> d, ret |-> 0]

\* control whose unknown codes fall through to the reset.
control_default_reset(d, ctrl_byte) ==
    CASE ctrl_byte = 1 -> [dev |-> d,
                           ret |-> IF d.m_scancode_reg_full THEN 0 ELSE 255]
      [] OTHER         -> [dev |-> kbd_device_reset(d), ret |-> 0]

\* control() returns a byte and may change the device: both are given.
control(d, ctrl_byte) ==
    CASE ctrl_byte = 0 -> [dev |-> kbd_device_reset(d), ret |-> 0]
      [] ctrl_byte = 1 -> [dev |-> d,
                           ret |-> IF d.m_scancode_reg_full THEN 0 ELSE 255]
      [] OTHER         -> [dev |-> d, ret |-> 0]

\* First byte with the high bit set ("control" branch).
kbd_command_control(d, recv_byte) ==
    LET d1 == [d EXCEPT !.m_state = "READY_TO_RESPOND"]
        r  == control(d1, recv_byte % 128)
    IN  set_miso_byte(r.dev, r.ret)

\* The read branch without the "clear buffer" statements.
kbd_command_read_noclear(d) ==
    LET d1 == [d EXCEPT !.m_state = "READY_TO_READ"]
    IN  set_miso_byte(d1, d1.m_last_scancode)

\* The read branch without the write of the IRQ line.
kbd_command_read_keep_irq(d) ==
    LET d1 == [d EXCEPT !.m_state = "READY_TO_READ"]
        d2 == set_miso_byte(d1, d1.m_last_scancode)
    IN  [d2 EXCEPT !.m_last_scancode = 0,
                   !.m_scancode_reg_full = FALSE]

\* The read branch that marks the register empty but leaves the scancode.
kbd_command_read_keep_code(d) ==
    LET d1 == [d EXCEPT !.m_state = "READY_TO_READ"]
        d2 == set_miso_byte(d1, d1.m_last_scancode)
    IN  [d2 EXCEPT !.m_scancode_reg_full = FALSE,
                   !.irq = 0]

\* First byte with the high bit clear ("read" branch).
kbd_command_read(d) ==
    LET d1 == [d EXCEPT !.m_state = "READY_TO_READ"]
        d2 == set_miso_byte(d1, d1.m_last_scancode)
    IN  [d2 EXCEPT !.m_last_scancode = 0,
                   !.m_scancode_reg_full = FALSE,
                   !.irq = 0]

kbd_slave_mosi_byte(d, recv_byte) ==
    CASE d.m_state = "NEWLY_SELECTED" ->
            IF (recv_byte \div 128) % 2 # 0
            THEN kbd_command_control(d, recv_byte)
            ELSE kbd_command_read(d)
      [] d.m_state \in {"READY_TO_READ", "READY_TO_RESPOND"} ->
            set_miso_byte([d EXCEPT !.m_state = "DONE"], 0)
      [] OTHER ->
            set_miso_byte(d, 0)

\* A select notification that also arms 0x00.
kbd_slave_select_arm(d) ==
    set_miso_byte([d EXCEPT !.m_state = "NEWLY_SELECTED"], 0)

kbd_slave_select(d) == [d EXCEPT !.m_state = "NEWLY_SELECTED"]

\* A deselect notification that keeps the protocol state.
kbd_slave_deselect_keep(d) == d

\* A deselect notification that also empties the scancode register.
kbd_slave_deselect_flush(d) ==
    [d EXCEPT !.m_state = "NOT_SELECTED",
              !.m_last_scancode = 0,
              !.m_scancode_reg_full = FALSE,
              !.irq = 0]

kbd_slave_deselect(d) == [d EXCEPT !.m_state = "NOT_SELECTED"]

\* keyboard_w that drops a scancode arriving while the register is full.
keyboard_w_keep_first(d, state, code) ==
    IF state = 0 \/ d.m_scancode_reg_full
    THEN d
    ELSE [d EXCEPT !.m_last_scancode = code,
                   !.m_scancode_reg_full = TRUE,
                   !.irq = 1]

\* keyboard_w that also arms the new scancode for transmission.
keyboard_w_arm(d, state, code) ==
    IF state = 0
    THEN d
    ELSE set_miso_byte([d EXCEPT !.m_last_scancode = code,
                                 !.m_scancode_reg_full = TRUE,
                                 !.irq = 1], code)

keyboard_w(d, state, code) ==
    IF state = 0
    THEN d
    ELSE [d EXCEPT !.m_last_scancode = code,
                   !.m_scancode_reg_full = TRUE,
                   !.irq = 1]

\* ------------------------------------- virtual dispatch of the callbacks
spi_slave_select(d) == IF d.kind = "kbd" THEN kbd_slave_select(d) ELSE d

spi_slave_deselect(d) == IF d.kind = "kbd" THEN kbd_slave_deselect(d) ELSE d

\* spi_keyboard::exchange of the earlier revision: the byte to send next.
exchange(recv) == 35

spi_slave_mosi_byte(d, recv_byte) ==
    CASE d.kind = "kbd"  -> kbd_slave_mosi_byte(d, recv_byte)
      [] d.kind = "exch" -> set_miso_byte(d, exchange(recv_byte))
      [] OTHER           -> d

\* ------------------------------------------------- engine: line handlers
\* recv_bit with the receive byte kept in an int: bits shifted out of a
\* uint8_t stay.
recv_bit_wide(d) ==
    IF d.m_data_dir = "SPI_MSB_FIRST"
    THEN [d EXCEPT !.m_recv_byte = d.m_recv_byte * 2 + BoolInt(d.m_mosi # 0),
                   !.m_recv_count = d.m_recv_count + 1]
    ELSE [d EXCEPT !.m_recv_byte = d.m_recv_byte * 2 + 128 * BoolInt(d.m_mosi # 0),
                   !.m_recv_count = d.m_recv_count + 1]

\* recv_bit that shifts the bit in without counting it.
recv_bit_uncounted(d) ==
    IF d.m_data_dir = "SPI_MSB_FIRST"
    THEN [d EXCEPT !.m_recv_byte = Shl8(d.m_recv_byte) + BoolInt(d.m_mosi # 0)]
    ELSE [d EXCEPT !.m_recv_byte = Shr8(d.m_recv_byte) + 128 * BoolInt(d.m_mosi # 0)]

\* The sampling branch of clk_edge_: shift MOSI into the receive byte.
recv_bit(d) ==
    IF d.m_data_dir = "SPI_MSB_FIRST"
    THEN [d EXCEPT !.m_recv_byte = Shl8(d.m_recv_byte) + BoolInt(d.m_mosi # 0),
                   !.m_recv_count = d.m_recv_count + 1]
    ELSE [d EXCEPT !.m_recv_byte = Shr8(d.m_recv_byte) + 128 * BoolInt(d.m_mosi # 0),
                   !.m_recv_count = d.m_recv_count + 1]

\* send_bit that shifts the send byte before it drives MISO.
send_bit_shift_first(d) ==
    IF d.m_data_dir = "SPI_MSB_FIRST"
    THEN LET d1 == [d EXCEPT !.m_send_byte = Shl8(d.m_send_byte),
                             !.m_send_count = d.m_send_count + 1]
         IN  set_miso(d1, IF TopBit(d1.m_send_byte) # 0 THEN 1 ELSE 0)
    ELSE LET d1 == [d EXCEPT !.m_send_byte = Shr8(d.m_send_byte),
                             !.m_send_count = d.m_send_count + 1]
         IN  set_miso(d1, LowBit(d1.m_send_byte))

\* send_bit with a circular shift register: the bit driven re-enters the
\* send byte at the other end.
send_bit_rotate(d) ==
    IF d.m_data_dir = "SPI_MSB_FIRST"
    THEN LET d1 == set_miso(d, IF TopBit(d.m_send_byte) # 0 THEN 1 ELSE 0)
         IN  [d1 EXCEPT !.m_send_byte = Shl8(d1.m_send_byte) + TopBit(d1.m_send_byte),
                        !.m_send_count = d1.m_send_count + 1]
    ELSE LET d1 == set_miso(d, LowBit(d.m_send_byte))
         IN  [d1 EXCEPT !.m_send_byte = Shr8(d1.m_send_byte) + 128 * LowBit(d1.m_send_byte),
                        !.m_send_count = d1.m_send_count + 1]

\* The driving branch of clk_edge_: put the next bit of the send byte on MISO.
send_bit(d) ==
    IF d.m_data_dir = "SPI_MSB_FIRST"
    THEN LET d1 == set_miso(d, IF TopBit(d.m_send_byte) # 0 THEN 1 ELSE 0)
         IN  [d1 EXCEPT !.m_send_byte = Shl8(d1.m_send_byte),
                        !.m_send_count = d1.m_send_count + 1]
    ELSE LET d1 == set_miso(d, LowBit(d.m_send_byte))
         IN  [d1 EXCEPT !.m_send_byte = Shr8(d1.m_send_byte),
                        !.m_send_count = d1.m_send_count + 1]

\* clk_shift_ that takes the leading edge as the sample edge in every mode.
clk_shift_no_cpha(d, idle_to_active) ==
    IF idle_to_active # 0 THEN recv_bit(d) ELSE send_bit(d)

\* clk_edge_ up to the test for a complete byte.
clk_shift_(d, idle_to_active) ==
    LET data_stable == IF cpha(d) # 0
                       THEN BoolInt(idle_to_active = 0)
                       ELSE idle_to_active
    IN  IF data_stable # 0 THEN recv_bit(d) ELSE send_bit(d)

\* The test for a complete byte in clk_edge_.
byte_exchanged(d) == d.m_recv_count = 8 /\ d.m_send_count = 8

\* clk_edge_ that hands the receive byte over after every pair of edges.
clk_edge_each_bit(d, idle_to_active) ==
    LET d1 == clk_shift_(d, idle_to_active)
    IN  IF d1.m_recv_count = d1.m_send_count
        THEN spi_slave_mosi_byte(set_miso_byte(d1, 0), d1.m_recv_byte)
        ELSE d1

\* clk_edge_ that calls the handler first and clears the send byte after.
clk_edge_callback_first(d, idle_to_active) ==
    LET d1 == clk_shift_(d, idle_to_active)
    IN  IF byte_exchanged(d1)
        THEN set_miso_byte(spi_slave_mosi_byte(d1, d1.m_recv_byte), 0)
        ELSE d1

clk_edge_(d, idle_to_active) ==
    LET d1 == clk_shift_(d, idle_to_active)
    IN  IF byte_exchanged(d1)
        THEN spi_slave_mosi_byte(set_miso_byte(d1, 0), d1.m_recv_byte)
        ELSE d1

write_mosi(d, state) == [d EXCEPT !.m_mosi = BoolInt(state # 0)]

\* write_select that leaves the bit counts alone when the device is selected.
write_select_keep_counts(d, state) ==
    LET d1 == IF state # BoolInt(d.m_selected)
              THEN IF state # 0
                   THEN spi_slave_select(d)
                   ELSE spi_slave_deselect(d)
              ELSE d
    IN  [d1 EXCEPT !.m_selected = (state # 0)]

\* write_select that clears only the send count on a new selection.
write_select_send_only(d, state) ==
    LET d1 == IF state # BoolInt(d.m_selected)
              THEN IF state # 0
                   THEN spi_slave_select([d EXCEPT !.m_send_count = 0])
                   ELSE spi_slave_deselect(d)
              ELSE d
    IN  [d1 EXCEPT !.m_selected = (state # 0)]

write_select(d, state) ==
    LET d1 == IF state # BoolInt(d.m_selected)
              THEN IF state # 0
                   THEN spi_slave_select([d EXCEPT !.m_recv_count = 0,
                                                   !.m_send_count = 0])
                   ELSE spi_slave_deselect(d)
              ELSE d
    IN  [d1 EXCEPT !.m_selected = (state # 0)]

\* The argument write_clock passes to clk_edge_ for a change to `state'.
is_idle_to_active(d, state) ==
    IF state # 0
    THEN IF cpol(d) # 0 THEN 0 ELSE 1
    ELSE IF cpol(d) # 0 THEN 1 ELSE 0

\* write_clock that handles every call as a clock change.
write_clock_every_call(d, state) ==
    LET d1 == [d EXCEPT !.m_clk = state]
    IN  IF ~d1.m_selected
        THEN d1
        ELSE clk_edge_(d1, is_idle_to_active(d1, state))

write_clock(d, state) ==
    IF d.m_clk = state
    THEN d
    ELSE LET d1 == [d EXCEPT !.m_clk = state]
         IN  IF ~d1.m_selected
             THEN d1
             ELSE clk_edge_(d1, is_idle_to_active(d1, state))

\* ------------------------------------- spi_bus (the earlier revision)
spi_bus(mode, data_dir) ==
    [m_mode |-> mode, m_data_dir |-> data_dir, m_selected |-> FALSE,
     m_clk |-> 0, m_mosi |-> 0, m_miso |-> 0,
     m_recv_byte |-> 0, m_send_byte |-> 0,
     m_recv_count |-> 0, m_send_count |-> 0]

bus_cpol(b) == IF b.m_mode = 2 \/ b.m_mode = 3 THEN 1 ELSE 0

bus_cpha(b) == IF b.m_mode = 1 \/ b.m_mode = 3 THEN 1 ELSE 0

mosi_w(b, state) ==
    IF b.m_selected THEN [b EXCEPT !.m_mosi = BoolInt(state # 0)] ELSE b

miso_r(b) == b.m_miso

select_w(b, state) ==
    LET b1 == IF state # BoolInt(b.m_selected) /\ state # 0
              THEN [b EXCEPT !.m_recv_count = 0, !.m_send_count = 0]
              ELSE b
    IN  [b1 EXCEPT !.m_selected = (state # 0)]

\* spi_bus::clk_edge_ up to the test for a complete byte.
bus_clk_shift_(b, idle_to_active) ==
    LET read_mosi == IF bus_cpha(b) # 0
                     THEN BoolInt(idle_to_active = 0)
                     ELSE idle_to_active
    IN  IF read_mosi # 0
        THEN IF b.m_data_dir = "SPI_MSB_FIRST"
             THEN [b EXCEPT !.m_recv_byte = Shl8(b.m_recv_byte)
                                            + (IF b.m_mosi # 0 THEN 1 ELSE 0),
                            !.m_recv_count = b.m_recv_count + 1]
             ELSE [b EXCEPT !.m_recv_byte = Shr8(b.m_recv_byte)
                                            + (IF b.m_mosi # 0 THEN 128 ELSE 0),
                            !.m_recv_count = b.m_recv_count + 1]
        ELSE IF b.m_data_dir = "SPI_MSB_FIRST"
             THEN [b EXCEPT !.m_miso = IF TopBit(b.m_send_byte) # 0 THEN 1 ELSE 0,
                            !.m_send_byte = Shl8(b.m_send_byte),
                            !.m_send_count = b.m_send_count + 1]
             ELSE [b EXCEPT !.m_miso = LowBit(b.m_send_byte),
                            !.m_send_byte = Shr8(b.m_send_byte),
                            !.m_send_count = b.m_send_count + 1]

bus_byte_exchanged(b) == b.m_recv_count = 8 /\ b.m_send_count = 8

\* spi_bus::clk_edge_ that leaves MISO alone after the exchange.
bus_clk_edge_no_prepare(b, idle_to_active) ==
    LET b1 == bus_clk_shift_(b, idle_to_active)
    IN  IF bus_byte_exchanged(b1)
        THEN [b1 EXCEPT !.m_send_byte = exchange(b1.m_recv_byte)]
        ELSE b1

bus_clk_edge_(b, idle_to_active) ==
    LET b1 == bus_clk_shift_(b, idle_to_active)
    IN  IF bus_byte_exchanged(b1)
        THEN LET b2 == [b1 EXCEPT !.m_send_byte = exchange(b1.m_recv_byte)]
             IN  IF b2.m_data_dir = "SPI_MSB_FIRST"
                 THEN [b2 EXCEPT !.m_miso = IF TopBit(b2.m_send_byte) # 0
                                            THEN 1 ELSE 0]
                 ELSE [b2 EXCEPT !.m_miso = LowBit(b2.m_send_byte)]
        ELSE b1

clk_w(b, state) ==
    IF ~b.m_selected \/ state = b.m_clk
    THEN b
    ELSE LET b1 == [b EXCEPT !.m_clk = state]
         IN  IF state # 0
             THEN bus_clk_edge_(b1, IF bus_cpol(b1) # 0 THEN 0 ELSE 1)
             ELSE bus_clk_edge_(b1, IF bus_cpol(b1) # 0 THEN 1 ELSE 0)

\* ------------------------------------------------- the bus master's view
\* Bits of a byte in the order they travel on the wire.
WireBits(b, dir) ==
    IF dir = "SPI_MSB_FIRST"
    THEN [k \in 1..8 |-> (b \div (2 ^ (8 - k))) % 2]
    ELSE [k \in 1..8 |-> (b \div (2 ^ (k - 1))) % 2]

IsPrefix(s, t) == Len(s) <= Len(t) /\ \A k \in 1..Len(s) : s[k] = t[k]

\* The log of the group of 8 sample edges in progress.
CurGroup(log) == IF Len(log) = 8 THEN <<>> ELSE log

\* A write of `state' to the clock line is a clock edge for the slave.
ClockEdge(state) == m_selected /\ m_clk # state

\* SPI convention: the leading edge leaves the idle level (CPOL); data is
\* sampled on the leading edge when CPHA = 0, on the trailing edge when
\* CPHA = 1.
SampleEdge(state) ==
    LET leading == BoolInt(state # 0) # cpol(Self)
    IN  IF cpha(Self) = 0 THEN leading ELSE ~leading

\* The master only ever shifts out bytes of MasterBytes.
MosiAllowed ==
    \E b \in MasterBytes :
        IsPrefix(Append(CurGroup(mosi_log), m_mosi), WireBits(b, m_data_dir))

\* ---------------------------------------------------------------- Init
\* The SPI device after construction and the device_reset of machine
\* start, nothing observed yet, and a CPU interrupt input never written.
DeviceConstructed ==
    /\ m_selected = FALSE
    /\ m_clk = 0 /\ m_mosi = 0 /\ m_miso = 0
    /\ m_recv_byte = 0 /\ m_send_byte = 0
    /\ m_recv_count = 0 /\ m_send_count = 0
    /\ m_state = "NOT_SELECTED"
    /\ m_last_scancode = 0
    /\ m_scancode_reg_full = FALSE
    /\ irq = 0
    /\ edges = 0 /\ samples = 0 /\ sel_idle = FALSE
    /\ mosi_log = <<>> /\ miso_log = <<>>
    /\ nevents = 0 /\ handed = -1
    /\ armed = -1 /\ latched = -1
    /\ first_byte = -1
    /\ first_state = "none"
    /\ first_code = 0
    /\ first_full = FALSE
    /\ first_clean = FALSE
    /\ read_clean = FALSE
    /\ pushed = -1
    /\ desel_from = "none"
    /\ nsel = 0
    /\ bus = spi_bus(m_mode, m_data_dir)
    /\ dev_bytes = <<>> /\ bus_bytes = <<>>
    /\ desel_partial = FALSE
    /\ pa_prev = -1 /\ pa = -1
    /\ cpu_irq = "CLEAR_LINE"
    /\ cpu_writes = 0
    /\ irq_log = <<>>

\* State after construction and the device_reset of machine start.
Constructed ==
    /\ DeviceConstructed
    /\ m_irqs = [mos6551 |-> 0, tms9929a |-> 0, via6522 |-> 0]

\* -------------------------------------------------------------- actions
\* write_select and what the bus master observes of it.
SelectLine(state) ==
    /\ (state # BoolInt(m_selected) /\ state # 0) => nsel < MaxSelects
    /\ Commit(write_select(Self, state))
    /\ IF state # BoolInt(m_selected)
       THEN /\ nsel' = IF state # 0 THEN nsel + 1 ELSE nsel
            /\ edges' = 0 /\ samples' = 0
            /\ sel_idle' = ((state # 0) /\ m_clk = cpol(Self))
            /\ mosi_log' = <<>> /\ miso_log' = <<>>
            /\ nevents' = 0 /\ handed' = -1
            /\ armed' = -1 /\ latched' = -1
            /\ first_byte' = -1
            /\ first_state' = "none"
            /\ first_code' = 0
            /\ first_full' = FALSE
            /\ first_clean' = FALSE
            /\ desel_from' = IF state # 0 THEN desel_from ELSE m_state
            /\ UNCHANGED <<read_clean, pushed>>
       ELSE UNCHANGED obsvars
    /\ UNCHANGED <<boardvars, revvars>>

WriteSelect(state) == SelectLine(state) /\ UNCHANGED histvars

WriteMosi(state) ==
    /\ Commit(write_mosi(Self, state))
    /\ UNCHANGED obsvars
    /\ UNCHANGED <<boardvars, revvars, histvars>>

WriteClock(state) ==
    LET edge  == ClockEdge(state)
        smp   == edge /\ SampleEdge(state)
        d1    == clk_shift_([Self EXCEPT !.m_clk = state],
                            is_idle_to_active(Self, state))
        fired == edge /\ byte_exchanged(d1)
        first == fired /\ nevents = 0
        d     == write_clock(Self, state)
    IN  /\ edge => edges < MaxEdges
        /\ smp => MosiAllowed
        /\ Commit(d)
        /\ edges' = IF edge THEN edges + 1 ELSE edges
        /\ samples' = IF smp THEN samples + 1 ELSE samples
        /\ mosi_log' = IF smp THEN Append(CurGroup(mosi_log), m_mosi) ELSE mosi_log
        /\ miso_log' = IF smp THEN Append(CurGroup(miso_log), m_miso) ELSE miso_log
        /\ nevents' = IF fired THEN nevents + 1 ELSE nevents
        /\ handed' = IF fired THEN d1.m_recv_byte ELSE handed
        /\ armed' = IF fired THEN d.m_send_byte ELSE armed
        /\ latched' = IF smp /\ CurGroup(miso_log) = <<>> THEN armed ELSE latched
        /\ first_byte' = IF first THEN d1.m_recv_byte ELSE first_byte
        /\ first_state' = IF first THEN d.m_state ELSE first_state
        /\ first_code' = IF first THEN m_last_scancode ELSE first_code
        /\ first_full' = IF first THEN m_scancode_reg_full ELSE first_full
        /\ first_clean' = IF first THEN read_clean ELSE first_clean
        /\ read_clean' = IF first /\ kind = "kbd"
                         THEN d1.m_recv_byte < 128
                         ELSE read_clean
        /\ pushed' = IF first /\ kind = "kbd" /\ d1.m_recv_byte <= 128
                     THEN -1
                     ELSE pushed
        /\ desel_from' = IF edge /\ nevents > 0 THEN "none" ELSE desel_from
        /\ UNCHANGED <<sel_idle, nsel>>
        /\ UNCHANGED <<boardvars, revvars, histvars>>

KeyboardW(state, code) ==
    /\ kind = "kbd"
    /\ Commit(keyboard_w(Self, state, code))
    /\ read_clean' = IF state # 0 THEN FALSE ELSE read_clean
    /\ pushed' = IF state # 0 THEN code ELSE pushed
    /\ UNCHANGED <<edges, samples, sel_idle, mosi_log, miso_log, nevents,
                   handed, armed, latched, first_byte, first_state, first_code,
                   first_full, first_clean, desel_from,
                   nsel>>
    /\ UNCHANGED <<boardvars, revvars, histvars>>

\* The owner of a plain slave device arms a byte between two exchanges.
SetMisoByte(b) ==
    /\ kind = "slave"
    /\ m_selected /\ sel_idle /\ edges % 16 = 0
    /\ Commit(set_miso_byte(Self, b))
    /\ armed' = b
    /\ UNCHANGED <<edges, samples, sel_idle, mosi_log, miso_log, nevents,
                   handed, latched, first_byte, first_state, first_code,
                   first_full, first_clean, read_clean, pushed, desel_from,
                   nsel>>
    /\ UNCHANGED <<boardvars, revvars, histvars>>

\* The keyboard controller, configured by MCFG_SPI_KBD_ADD.
Init ==
    /\ kind = "kbd"
    /\ m_mode = 1
    /\ m_data_dir = "SPI_MSB_FIRST"
    /\ Constructed

Next ==
    \/ \E state \in Levels : WriteSelect(state)
    \/ \E state \in Levels : WriteClock(state)
    \/ \E state \in Levels : WriteMosi(state)
    \/ \E state \in Levels, code \in Scancodes : KeyboardW(state, code)

Spec == Init /\ [][Next]_vars

\* A plain spi_slave_device in any mode and bit order, whose owner arms
\* the bytes to send.
InitSlave ==
    /\ kind = "slave"
    /\ m_mode \in 0..3
    /\ m_data_dir \in {"SPI_MSB_FIRST", "SPI_LSB_FIRST"}
    /\ Constructed

NextSlave ==
    \/ \E state \in Levels : WriteSelect(state)
    \/ \E state \in Levels : WriteClock(state)
    \/ \E state \in Levels : WriteMosi(state)
    \/ \E b \in TxBytes : SetMisoByte(b)

SpecSlave == InitSlave /\ [][NextSlave]_vars

\* Either device: the keyboard controller, whose handler arms a byte, or a
\* plain spi_slave_device, whose handler is the empty default.
InitBoth == Init \/ InitSlave

NextBoth ==
    \/ \E state \in Levels : WriteSelect(state)
    \/ \E state \in Levels : WriteClock(state)
    \/ \E state \in Levels : WriteMosi(state)
    \/ \E state \in Levels, code \in Scancodes : KeyboardW(state, code)
    \/ \E b \in TxBytes : SetMisoByte(b)

SpecBoth == InitBoth /\ [][NextBoth]_vars

\* Either device with every caller there is: the bus master, the keyboard
\* and the owner who arms bytes, over the first byte of each selection
\* and the start of the second.
WriteClockMiso(state) == edges < MaxMisoEdges /\ WriteClock(state)

NextMiso ==
    \/ \E state \in Levels : WriteSelect(state)
    \/ \E state \in Levels : WriteClockMiso(state)
    \/ \E state \in Levels : WriteMosi(state)
    \/ \E state \in Levels, code \in Scancodes : KeyboardW(state, code)
    \/ \E b \in TxBytes : SetMisoByte(b)

SpecMiso == InitBoth /\ [][NextMiso]_vars

\* A byte is in progress: the bit counts are not at a byte boundary.
byte_in_progress(d) == d.m_recv_count % 8 # 0 \/ d.m_send_count % 8 # 0

\* write_select, remembering whether a deselect cut a byte short.
ResyncSelect(state) ==
    /\ SelectLine(state)
    /\ desel_partial' = IF state # BoolInt(m_selected) /\ state = 0
                        THEN byte_in_progress(Self)
                        ELSE desel_partial
    /\ UNCHANGED <<pa_prev, pa>>

NextResync ==
    \/ \E state \in Levels : ResyncSelect(state)
    \/ \E state \in Levels : WriteClock(state)
    \/ \E state \in Levels : WriteMosi(state)

\* Either device, deselected and selected again at any point of a byte.
SpecResync == InitBoth /\ [][NextResync]_vars

\* The keyboard controller with its three lines written as the int of a
\* write-line callback.
WriteClockInt(state) == edges < MaxIntEdges /\ WriteClock(state)

NextInt ==
    \/ \E state \in IntLevels : WriteSelect(state)
    \/ \E state \in IntLevels : WriteClockInt(state)
    \/ \E state \in IntLevels : WriteMosi(state)

SpecInt == Init /\ [][NextInt]_vars

\* ------------------------------ the two engine revisions side by side
\* Observations the side-by-side run does not use.
restobs == <<samples, miso_log, nevents, handed, armed, latched, first_byte,
             first_state, first_code, first_full, first_clean, read_clean,
             pushed, desel_from>>

\* The same level is written to the select line of both engines.
RevSelect(state) ==
    /\ (state # BoolInt(m_selected) /\ state # 0) => nsel < MaxSelects
    /\ Commit(write_select(Self, state))
    /\ bus' = select_w(bus, state)
    /\ IF state # BoolInt(m_selected)
       THEN /\ nsel' = IF state # 0 THEN nsel + 1 ELSE nsel
            /\ edges' = 0
            /\ sel_idle' = ((state # 0) /\ m_clk = cpol(Self))
            /\ mosi_log' = <<>>
       ELSE UNCHANGED <<nsel, edges, sel_idle, mosi_log>>
    /\ UNCHANGED <<restobs, boardvars, dev_bytes, bus_bytes, histvars>>

\* The same level is written to the clock line of both engines, while
\* they are selected.
RevClock(state) ==
    LET edge    == ClockEdge(state)
        smp     == edge /\ SampleEdge(state)
        d1      == clk_shift_([Self EXCEPT !.m_clk = state],
                              is_idle_to_active(Self, state))
        fired   == edge /\ byte_exchanged(d1)
        b_edge  == bus.m_selected /\ bus.m_clk # state
        b1      == bus_clk_shift_([bus EXCEPT !.m_clk = state],
                                  is_idle_to_active(bus, state))
        b_fired == b_edge /\ bus_byte_exchanged(b1)
    IN  /\ m_selected
        /\ edge => edges < MaxEdges
        /\ smp => MosiAllowed
        /\ Commit(write_clock(Self, state))
        /\ bus' = clk_w(bus, state)
        /\ edges' = IF edge THEN edges + 1 ELSE edges
        /\ mosi_log' = IF smp THEN Append(CurGroup(mosi_log), m_mosi) ELSE mosi_log
        /\ dev_bytes' = IF fired
                        THEN Append(dev_bytes, <<nsel, edges + 1, d1.m_recv_byte>>)
                        ELSE dev_bytes
        /\ bus_bytes' = IF b_fired
                        THEN Append(bus_bytes, <<nsel, edges + 1, b1.m_recv_byte>>)
                        ELSE bus_bytes
        /\ UNCHANGED <<nsel, sel_idle, restobs, boardvars, histvars>>

\* The same level is written to the MOSI line of both engines, while they
\* are selected.
RevMosi(state) ==
    /\ m_selected
    /\ Commit(write_mosi(Self, state))
    /\ bus' = mosi_w(bus, state)
    /\ UNCHANGED <<obsvars, boardvars, dev_bytes, bus_bytes, histvars>>

\* A peripheral that answers every byte as spi_keyboard::exchange does, on
\* the later engine, and the same peripheral on the earlier engine.
InitRev ==
    /\ kind = "exch"
    /\ m_mode \in 0..3
    /\ m_data_dir \in {"SPI_MSB_FIRST", "SPI_LSB_FIRST"}
    /\ Constructed

NextRev ==
    \/ \E state \in Levels : RevSelect(state)
    \/ \E state \in Levels : RevClock(state)
    \/ \E state \in Levels : RevMosi(state)

SpecRev == InitRev /\ [][NextRev]_vars

\* ------------------------------------------------ buri_state: VIA port A
\* via_pa_w that writes the MOSI line before the clock line.
via_pa_w_mosi_first(d, data) ==
    LET clk  == data % 2
        mosi == IF (data \div 2) % 2 # 0 THEN 1 ELSE 0
        m_selected_spi_device == (data % 32) \div 4
        d1   == write_select(d, BoolInt(m_selected_spi_device = 0))
        d2   == write_mosi(d1, mosi)
    IN  write_clock(d2, clk)

\* via_pa_w: the keyboard is SPI device 0; its three lines are written in
\* the order select, clock, MOSI.
via_pa_w(d, data) ==
    LET clk  == data % 2
        mosi == IF (data \div 2) % 2 # 0 THEN 1 ELSE 0
        m_selected_spi_device == (data % 32) \div 4
        d1   == write_select(d, BoolInt(m_selected_spi_device = 0))
        d2   == write_clock(d1, clk)
    IN  write_mosi(d2, mosi)

\* The CPU writes a byte to port A.
ViaPaW(data) ==
    LET sel    == BoolInt((data % 32) \div 4 = 0)
        newsel == sel # BoolInt(m_selected)
        d1     == write_select(Self, sel)
        edge   == d1.m_selected /\ d1.m_clk # data % 2
        smp    == edge /\ SampleEdge(data % 2)
        before == IF newsel THEN 0 ELSE edges
        log    == IF newsel THEN <<>> ELSE CurGroup(mosi_log)
    IN  /\ (newsel /\ sel # 0) => nsel < MaxSelects
        /\ edge => before < MaxPaEdges
        /\ smp => \E b \in MasterBytes :
                      IsPrefix(Append(log, m_mosi), WireBits(b, m_data_dir))
        /\ Commit(via_pa_w(Self, data))
        /\ nsel' = IF newsel /\ sel # 0 THEN nsel + 1 ELSE nsel
        /\ edges' = before + BoolInt(edge)
        /\ mosi_log' = IF smp THEN Append(log, m_mosi)
                       ELSE IF newsel THEN <<>> ELSE mosi_log
        /\ pa_prev' = pa
        /\ pa' = data
        /\ UNCHANGED <<restobs, sel_idle, desel_partial>>
        /\ UNCHANGED <<boardvars, revvars>>

NextVia == \E data \in PortBytes : ViaPaW(data)

\* The keyboard controller driven through port A of the VIA.
SpecVia == Init /\ [][NextVia]_vars

\* ------------------------------------------- buri_state: interrupt lines
\* The interrupt sources wired to the CPU.
IrqSources == {"mos6551", "tms9929a", "via6522"}

\* m_irqs.val: the flags are the low bits of the word, the rest stays 0.
irqs_val(m) == m.mos6551 + 2 * m.tms9929a + 4 * m.via6522

\* irqs_updated_: the level written to the CPU interrupt input.
irqs_updated_(m) == IF irqs_val(m) # 0 THEN "ASSERT_LINE" ELSE "CLEAR_LINE"

\* set_input_line reached only when the level differs from the last one.
set_input_line_on_change(line, state) ==
    IF line.level = state
    THEN line
    ELSE [level |-> state, writes |-> line.writes + 1]

\* m_maincpu->set_input_line: the CPU input takes the level; the call is
\* counted.
set_input_line(line, state) ==
    [level |-> state, writes |-> line.writes + 1]

\* mos6551_irq_w that stores the level itself in the one-bit flag.
mos6551_irq_w_trunc(m, state) == [m EXCEPT !.mos6551 = state % 2]

mos6551_irq_w(m, state) == [m EXCEPT !.mos6551 = BoolInt(state # 0)]

tms9929a_irq_w(m, state) == [m EXCEPT !.tms9929a = BoolInt(state # 0)]

via6522_irq_w(m, state) == [m EXCEPT !.via6522 = BoolInt(state # 0)]

\* The part every source handler shares: store the flags, then
\* irqs_updated_ writes the CPU line.
IrqWrite(m, source, state) ==
    /\ Len(irq_log) < MaxIrqWrites
    /\ m_irqs' = m
    /\ LET line == set_input_line([level |-> cpu_irq, writes |-> cpu_writes],
                                  irqs_updated_(m))
       IN  cpu_irq' = line.level /\ cpu_writes' = line.writes
    /\ irq_log' = Append(irq_log, <<source, state>>)
    /\ UNCHANGED <<devvars, obsvars, revvars, histvars>>

Mos6551IrqW(state) == IrqWrite(mos6551_irq_w(m_irqs, state), "mos6551", state)

Tms9929aIrqW(state) == IrqWrite(tms9929a_irq_w(m_irqs, state), "tms9929a", state)

Via6522IrqW(state) == IrqWrite(via6522_irq_w(m_irqs, state), "via6522", state)

NextIrq ==
    \/ \E state \in IntLevels : Mos6551IrqW(state)
    \/ \E state \in IntLevels : Tms9929aIrqW(state)
    \/ \E state \in IntLevels : Via6522IrqW(state)

\* The board's interrupt aggregation, driven by its three sources.
SpecIrq == Init /\ [][NextIrq]_vars

\* ------------------- the board revision with active-low interrupt lines
LowSources == {"mos6551", "tms9929a"}

low_irqs_val(m) == m.mos6551 + 2 * m.tms9929a

low_irqs_updated_(m) ==
    IF low_irqs_val(m) # 0 THEN "CLEAR_LINE" ELSE "ASSERT_LINE"

low_mos6551_irq_w(m, state) == [m EXCEPT !.mos6551 = BoolInt(state = 0)]

low_tms9929a_irq_w(m, state) == [m EXCEPT !.tms9929a = BoolInt(state = 0)]

LowIrqWrite(m, source, state) ==
    /\ Len(irq_log) < MaxIrqWrites
    /\ m_irqs' = m
    /\ LET line == set_input_line([level |-> cpu_irq, writes |-> cpu_writes],
                                  low_irqs_updated_(m))
       IN  cpu_irq' = line.level /\ cpu_writes' = line.writes
    /\ irq_log' = Append(irq_log, <<source, state>>)
    /\ UNCHANGED <<devvars, obsvars, revvars, histvars>>

LowMos6551IrqW(state) ==
    LowIrqWrite(low_mos6551_irq_w(m_irqs, state), "mos6551", state)

LowTms9929aIrqW(state) ==
    LowIrqWrite(low_tms9929a_irq_w(m_irqs, state), "tms9929a", state)

\* This board has no SPI device: the device variables stay as constructed.
InitLow ==
    /\ kind = "slave"
    /\ m_mode = 0
    /\ m_data_dir = "SPI_MSB_FIRST"
    /\ DeviceConstructed
    /\ m_irqs = [mos6551 |-> 0, tms9929a |-> 0]

NextLow ==
    \/ \E state \in IntLevels : LowMos6551IrqW(state)
    \/ \E state \in IntLevels : LowTms9929aIrqW(state)

SpecIrqLow == InitLow /\ [][NextLow]_vars

\* Level the source wrote last (0: never written).
SourceLevel(source) ==
    LET at == {k \in 1..Len(irq_log) : irq_log[k][1] = source}
    IN  IF at = {}
        THEN 0
        ELSE irq_log[CHOOSE k \in at : \A j \in at : j <= k][2]

\* Byte made of 8 wire bits: the first bit on the wire is bit 7 for
\* MSB first and bit 0 for LSB first.
FromWire(bits, dir) ==
    IF dir = "SPI_MSB_FIRST"
    THEN bits[1] * 128 + bits[2] * 64 + bits[3] * 32 + bits[4] * 16
         + bits[5] * 8 + bits[6] * 4 + bits[7] * 2 + bits[8]
    ELSE bits[8] * 128 + bits[7] * 64 + bits[6] * 32 + bits[5] * 16
         + bits[4] * 8 + bits[3] * 4 + bits[2] * 2 + bits[1]

TypeOK ==
    /\ m_recv_byte \in 0..255 /\ m_send_byte \in 0..255
    /\ m_miso \in {0, 1} /\ m_mosi \in {0, 1}
    /\ m_last_scancode \in 0..255

\* ------------------------------------------------------------ properties

\* C1: in every mode and bit order, 8 full clock cycles after a selection
\* made with the clock idle, spi_slave_mosi_byte has been called once, with
\* the byte made of the 8 MOSI levels the master held at the sample edges,
\* whatever the receive byte held before.
C1_ReceivedByte ==
    (sel_idle /\ edges = 16) =>
        /\ nevents = 1
        /\ Len(mosi_log) = 8
        /\ handed = FromWire(mosi_log, m_data_dir)

\* A second selection, LSB first with an idle-high clock, delivered 0x82.
C1_Witness ==
    /\ sel_idle /\ edges = 16 /\ nsel = 2
    /\ m_mode = 2 /\ m_data_dir = "SPI_LSB_FIRST"
    /\ nevents = 1 /\ handed = 130

\* C2: in every mode and bit order, the MISO levels at the 8 sample edges
\* that follow set_miso_byte(tx), called between two exchanges of a
\* selection made with the clock idle, are the bits of tx in wire order.
C2_TransmittedByte ==
    (sel_idle /\ latched >= 0 /\ Len(miso_log) = 8) =>
        miso_log = WireBits(latched, m_data_dir)

FirstExchange == nevents = 0 /\ nevents' = 1

\* C4: when the first byte exchanged after selection has its high bit
\* clear, the handler arms the buffered scancode, moves to ReadyToRead and
\* leaves the buffer 0x00 / not full with the IRQ line low; if the
\* previous read was not followed by a push, the byte armed is 0x00.
C4_ReadCommand ==
    [][(FirstExchange /\ first_byte' < 128) =>
          /\ m_send_byte' = m_last_scancode
          /\ m_miso' = TopBit(m_last_scancode)
          /\ m_state' = "READY_TO_READ"
          /\ m_last_scancode' = 0
          /\ m_scancode_reg_full' = FALSE
          /\ irq' = 0
          /\ read_clean => m_send_byte' = 0]_vars

\* A pending scancode 0x1C has been armed by a read command and cleared.
C4_Witness ==
    /\ nevents = 1 /\ first_byte = 0
    /\ first_full /\ first_code = 28 /\ armed = 28
    /\ m_state = "READY_TO_READ"
    /\ m_last_scancode = 0 /\ ~m_scancode_reg_full /\ irq = 0

\* C5: control code 0x01 (first byte 0x81) answers 0xFF if the scancode
\* register is full and 0x00 if it is empty, and changes neither the
\* buffer nor the IRQ line.
C5_Peek ==
    [][(FirstExchange /\ first_byte' = 129) =>
          /\ m_send_byte' = IF m_scancode_reg_full THEN 255 ELSE 0
          /\ UNCHANGED <<m_last_scancode, m_scancode_reg_full, irq>>]_vars

\* C6: a first byte 0x80 (control code 0x00) leaves the buffer empty and
\* 0x00 with the IRQ line low, and arms 0x00, also when a scancode was
\* pending.
C6_ControlReset ==
    [][(FirstExchange /\ first_byte' = 128) =>
          /\ m_scancode_reg_full' = FALSE
          /\ m_last_scancode' = 0
          /\ irq' = 0
          /\ m_send_byte' = 0
          /\ m_miso' = 0]_vars

\* A reset command has been handled while a scancode was pending.
C6_Witness ==
    /\ nevents = 1 /\ first_byte = 128
    /\ first_full /\ first_code = 156
    /\ ~m_scancode_reg_full /\ m_last_scancode = 0 /\ irq = 0
    /\ armed = 0

\* C7: when the first byte exchanged after selection has its high bit
\* set, for every control code the protocol state after the handler is
\* ReadyToRespond and the byte armed is the value control(code) returned.
C7_ControlCommand ==
    [][(FirstExchange /\ first_byte' >= 128) =>
          /\ m_state' = "READY_TO_RESPOND"
          /\ m_send_byte' = control(Self, first_byte' % 128).ret]_vars

\* C8: once the first exchange has left the protocol in ReadyToRead or
\* ReadyToRespond, 8 further full clock cycles leave it in Done with 0x00
\* armed.
C8_SecondByte ==
    (sel_idle /\ edges = 32
        /\ first_state \in {"READY_TO_READ", "READY_TO_RESPOND"}) =>
        /\ m_state = "DONE"
        /\ m_send_byte = 0

\* The 16 full clock cycles of the first two byte exchanges are over.  A
\* selection made while the clock is active begins with a stray trailing
\* edge that belongs to no full cycle.
ThirdExchange == edges >= 32 + (IF sel_idle THEN 0 ELSE 1)

\* C9: from the third byte exchange of a selection on (after the 16th
\* full clock cycle) every MISO level the master samples is 0 and no clock
\* edge changes the scancode buffer, the full flag or the IRQ line,
\* whatever the master sends.
C9_TransactionWindow ==
    [][(ThirdExchange /\ edges' = edges + 1) =>
          /\ samples' = samples + 1 => m_miso = 0
          /\ UNCHANGED <<m_last_scancode, m_scancode_reg_full, irq>>]_vars

\* The master has sampled the first bit of a third exchange after a read
\* that returned 0x9C.
C9_Witness ==
    /\ sel_idle /\ samples = 17
    /\ first_byte = 0 /\ first_code = 156
    /\ miso_log = <<0>>

\* C10: write_select(0) on the selected keyboard leaves the protocol in
\* NotSelected whatever state it was in; the following write_select(1)
\* leaves it in NewlySelected with both bit counts 0, and the first byte
\* exchanged in the new selection is handled in NewlySelected, that is
\* parsed as a command.
C10_Deselect ==
    [][/\ (m_selected /\ ~m_selected') => m_state' = "NOT_SELECTED"
       /\ (~m_selected /\ m_selected') =>
              /\ m_state' = "NEWLY_SELECTED"
              /\ m_recv_count' = 0 /\ m_send_count' = 0
       /\ FirstExchange => m_state = "NEWLY_SELECTED"
       /\ (sel_idle /\ edges = 15 /\ edges' = 16) => FirstExchange]_vars

\* The keyboard was deselected in ReadyToRead, selected again, and has
\* parsed the next byte as a command.
C10_Witness ==
    /\ m_selected /\ nsel = 2
    /\ desel_from = "READY_TO_READ"
    /\ nevents = 1 /\ first_byte = 129
    /\ m_state = "READY_TO_RESPOND"

\* The engine's side of the device: lines, shift registers and bit counts.
enginevars == <<kind, m_mode, m_data_dir, m_selected, m_clk, m_mosi, m_miso,
                m_recv_byte, m_send_byte, m_recv_count, m_send_count, m_state>>

\* C11: keyboard_w with a non-zero level stores the scancode read from the
\* keyboard, sets the full flag and asserts the IRQ line, also when the
\* register was already full (the earlier scancode is overwritten), and
\* touches nothing of the SPI exchange; keyboard_w with level 0 changes
\* nothing.  Until a read or reset command clears it, the register therefore
\* holds the scancode pushed last.
C11_KeyboardPush ==
    /\ [](pushed >= 0 => /\ m_last_scancode = pushed
                         /\ m_scancode_reg_full
                         /\ irq = 1)
    /\ [][\A state \in Levels, code \in Scancodes :
            KeyboardW(state, code) =>
                IF state # 0
                THEN /\ m_last_scancode' = code
                     /\ m_scancode_reg_full' = TRUE
                     /\ irq' = 1
                     /\ UNCHANGED enginevars
                ELSE UNCHANGED devvars]_vars

\* The register held 0x1C at a peek, which leaves it alone; later in the
\* same selection it holds 0x9C: the unread 0x1C was overwritten.
C11_Witness ==
    /\ m_selected /\ nevents = 1
    /\ first_byte = 129 /\ first_full /\ first_code = 28
    /\ pushed = 156
    /\ m_last_scancode = 156 /\ m_scancode_reg_full /\ irq = 1

\* C12: after any sequence of updates of the three interrupt sources, with
\* any integer level (non-zero: asserted), the level last written to the CPU
\* interrupt input is ASSERT_LINE exactly when at least one source is
\* currently asserted.
C12_IrqAggregation ==
    (cpu_irq = "ASSERT_LINE") <=>
        \E source \in IrqSources : SourceLevel(source) # 0

\* Two sources were asserted and one of them deasserted: the CPU line is
\* still asserted.
C12_Witness ==
    /\ irq_log = <<(<<"mos6551", 1>>), (<<"via6522", 2>>), (<<"mos6551", 0>>)>>
    /\ cpu_irq = "ASSERT_LINE"

\* C13: with levels 0 and 1, write_select(1) on a deselected device sets
\* both bit counts to 0 and calls the selected notification (the keyboard
\* enters NewlySelected), whatever partial byte the previous selection
\* left; write_select(0) on a selected device calls the deselected
\* notification (the keyboard enters NotSelected) and changes nothing else
\* but the select level; a write of the current level changes nothing.
C13_WriteSelect ==
    [][\A state \in Levels :
          WriteSelect(state) =>
              /\ (~m_selected /\ state = 1) =>
                     /\ m_selected'
                     /\ m_recv_count' = 0 /\ m_send_count' = 0
                     /\ m_state' = "NEWLY_SELECTED"
                     /\ UNCHANGED <<m_recv_byte, m_send_byte, m_clk, m_mosi,
                                    m_miso, m_last_scancode,
                                    m_scancode_reg_full, irq>>
              /\ (m_selected /\ state = 0) =>
                     /\ ~m_selected'
                     /\ m_state' = "NOT_SELECTED"
                     /\ UNCHANGED <<m_recv_count, m_send_count, m_recv_byte,
                                    m_send_byte, m_clk, m_mosi, m_miso,
                                    m_last_scancode, m_scancode_reg_full, irq>>
              /\ (m_selected = (state = 1)) => UNCHANGED devvars]_vars

\* The previous selection ended inside its first byte; the device has
\* been selected again and the bits shifted in are still in the receive
\* byte, with both counts back to 0.
C13_Witness ==
    /\ m_selected /\ nsel = 2 /\ edges = 0
    /\ desel_from = "NEWLY_SELECTED"
    /\ m_recv_byte = 1
    /\ m_recv_count = 0 /\ m_send_count = 0
    /\ m_state = "NEWLY_SELECTED"

C15_WriteClockIdempotent ==
    /\ [](\A state \in Levels :
             LET d == write_clock(Self, state)
             IN  write_clock(d, state) = d)
    /\ [][\A state \in Levels :
            (WriteClock(state) /\ m_clk = state) => UNCHANGED vars]_vars

\* The last clock write completed a read command; writing the same level
\* again leaves the armed scancode and the protocol state alone.
C15_Witness ==
    /\ sel_idle /\ edges = 16 /\ nevents = 1
    /\ first_byte = 0 /\ first_code = 156
    /\ m_state = "READY_TO_READ" /\ m_send_byte = 156
    /\ write_clock(Self, m_clk) = Self

\* C16: a write_mosi made while the device is not selected is discarded:
\* it changes nothing, so the MOSI level the engine samples first after a
\* later selection is never one written while deselected.
C16_MosiWhileDeselected ==
    [][\A state \in Levels :
          (WriteMosi(state) /\ ~m_selected) => UNCHANGED devvars]_vars

\* C17: a write_clock made while the device is not selected has no
\* effect: the device, tracked clock level included, is as it was before,
\* so the first edge of the next selection does not depend on it.
C17_ClockWhileDeselected ==
    [][\A state \in Levels :
          (WriteClock(state) /\ ~m_selected) => UNCHANGED devvars]_vars

\* The device with the tracked clock level read as a boolean.
ClkAsBool(d) == [d EXCEPT !.m_clk = BoolInt(d.m_clk # 0)]

\* C18: for write_select, write_clock and write_mosi every non-zero level
\* behaves exactly like level 1: the call leaves the device as the same
\* call with level 1 would (the clock level compared as a boolean), so
\* write_clock(2) after write_clock(1) is no clock edge and write_select(2)
\* on a selected device neither resets the bit counts nor repeats the
\* selected notification.
C18_BooleanCoercion ==
    [][\A state \in IntLevels \ {0} :
          /\ WriteSelect(state) => Self' = write_select(Self, 1)
          /\ WriteMosi(state) => Self' = write_mosi(Self, 1)
          /\ WriteClock(state) =>
                 ClkAsBool(Self') = write_clock(ClkAsBool(Self), 1)]_vars

\* Byte the keyboard's handler passes to set_miso_byte for the byte just
\* received: the buffered scancode for a read command, the result of
\* control for a control command, 0x00 for any later byte.
KbdAnswer ==
    IF m_state = "NEWLY_SELECTED"
    THEN IF handed' < 128
         THEN m_last_scancode
         ELSE control(Self, handed' % 128).ret
    ELSE 0

\* C19: when a byte completes, the send byte is cleared and MISO driven
\* low before spi_slave_mosi_byte is called: once the clock-edge call has
\* returned, the send byte (and the first bit on MISO) is the byte the
\* handler armed if it armed one (keyboard), and 0x00 with MISO low if it
\* armed none (plain spi_slave_device).
C19_ResetThenCallback ==
    [][nevents' = nevents + 1 =>
          IF kind = "slave"
          THEN m_send_byte' = 0 /\ m_miso' = 0
          ELSE /\ m_send_byte' = KbdAnswer
               /\ m_miso' = TopBit(KbdAnswer)]_vars

\* The keyboard's handler armed 0x9C at the end of the first byte and the
\* byte is still armed, its top bit on MISO.
C19_Witness ==
    /\ kind = "kbd" /\ sel_idle /\ edges = 16 /\ nevents = 1
    /\ first_byte = 0 /\ first_code = 156
    /\ m_send_byte = 156 /\ m_miso = 1

\* C20: set_miso_byte(b) stores b as the send byte and, before any further
\* clock edge, makes read_miso() return bit 7 of b for MSB first and bit 0
\* of b for LSB first; it changes neither bit count nor the receive byte.
C20_SetMisoByte ==
    [][\A b \in TxBytes :
          SetMisoByte(b) =>
              /\ m_send_byte' = b
              /\ read_miso(Self') = IF m_data_dir = "SPI_MSB_FIRST"
                                    THEN (b \div 128) % 2
                                    ELSE b % 2
              /\ UNCHANGED <<m_recv_count, m_send_count, m_recv_byte>>]_vars

\* 0x9C was armed after a first byte 0x81 had been received MSB first:
\* MISO shows bit 7, the counts and the received byte are as they were.
C20_Witness ==
    /\ kind = "slave" /\ m_data_dir = "SPI_MSB_FIRST"
    /\ sel_idle /\ edges = 16 /\ nevents = 1
    /\ armed = 156 /\ m_send_byte = 156 /\ m_miso = 1
    /\ m_recv_byte = 129 /\ m_recv_count = 8 /\ m_send_count = 8

\* The clock write of this step is a clock edge for the selected device.
EdgeStep == edges' = edges + 1

\* C21: while selected, a clock transition to the active level (1 - CPOL)
\* samples MOSI when CPHA = 0 and shifts MISO when CPHA = 1, and a
\* transition back to the idle level does the opposite: a rising edge
\* samples exactly in modes 0 and 3, a falling edge exactly in modes 1 and
\* 2, and every edge increments exactly one of the two bit counts.
C21_EdgeClassification ==
    [][EdgeStep =>
          LET rising   == m_clk' = 1
              cpol_    == IF m_mode \in {2, 3} THEN 1 ELSE 0
              cpha_    == IF m_mode \in {1, 3} THEN 1 ELSE 0
              toActive == m_clk' = 1 - cpol_
              sampled  == /\ m_recv_count' = m_recv_count + 1
                          /\ m_send_count' = m_send_count
              shifted  == /\ m_send_count' = m_send_count + 1
                          /\ m_recv_count' = m_recv_count
          IN  /\ sampled # shifted
              /\ sampled <=> (toActive <=> cpha_ = 0)
              /\ sampled <=> (rising <=> m_mode \in {0, 3})]_vars

\* Mode 2: the falling clock edge after selection has sampled MOSI = 1,
\* nothing has been shifted out yet.
C21_Witness ==
    /\ m_mode = 2 /\ m_data_dir = "SPI_MSB_FIRST"
    /\ sel_idle /\ edges = 1 /\ m_clk = 0
    /\ m_recv_count = 1 /\ m_send_count = 0 /\ m_recv_byte = 1

\* C22: in every state the keyboard reaches through line writes with
\* levels 0 and 1, scancode pushes and control codes, the two bit counts
\* are equal or differ by exactly 1.
C22_CountBalance ==
    \/ m_recv_count = m_send_count
    \/ m_recv_count = m_send_count + 1
    \/ m_send_count = m_recv_count + 1

\* In a second selection, made with the clock high, the stray falling edge
\* has sampled a bit before any was shifted out.
C22_Witness ==
    /\ m_selected /\ nsel = 2 /\ ~sel_idle /\ edges = 1
    /\ m_recv_count = 1 /\ m_send_count = 0

\* C23: in every reachable state both bit counts lie in 0..8.
C23_CountRange ==
    /\ m_recv_count \in 0..8
    /\ m_send_count \in 0..8

\* What the keyboard protocol keeps: its state, the scancode register and
\* the IRQ line.
protovars == <<m_state, m_last_scancode, m_scancode_reg_full, irq>>

\* C24: a clock edge that does not complete a byte (the two counts do not
\* both reach 8), and any write_mosi, leaves the keyboard's protocol
\* state, scancode register, full flag and IRQ line unchanged.
C24_ByteBoundaries ==
    [][/\ (EdgeStep /\ nevents' = nevents) => UNCHANGED protovars
       /\ \A state \in Levels : WriteMosi(state) => UNCHANGED protovars]_vars

\* Two clock cycles into the second byte of a read transaction: the
\* protocol is still in ReadyToRead and the scancode pushed meanwhile is
\* still pending.
C24_Witness ==
    /\ sel_idle /\ edges = 20 /\ nevents = 1
    /\ first_byte = 0 /\ m_state = "READY_TO_READ"
    /\ m_recv_count = 10 /\ m_send_count = 10
    /\ pushed = 28 /\ m_scancode_reg_full /\ irq = 1

\* C25: a first byte 0x80 | c with c other than 0x00 and 0x01 arms the
\* response 0x00 and leaves the scancode register, the full flag and the
\* IRQ line unchanged.
C25_UnknownControl ==
    [][(FirstExchange /\ first_byte' > 129) =>
          /\ m_send_byte' = 0
          /\ m_miso' = 0
          /\ UNCHANGED <<m_last_scancode, m_scancode_reg_full, irq>>]_vars

\* Control code 0x02 has been answered with 0x00 while scancode 0x9C was
\* pending, and it still is.
C25_Witness ==
    /\ nevents = 1 /\ first_byte = 130
    /\ first_full /\ first_code = 156
    /\ armed = 0 /\ m_send_byte = 0
    /\ m_last_scancode = 156 /\ m_scancode_reg_full /\ irq = 1

\* OR of the levels the sources wrote last.
Aggregate ==
    IF \E source \in IrqSources : SourceLevel(source) # 0
    THEN "ASSERT_LINE"
    ELSE "CLEAR_LINE"

\* An interrupt source is updated at this step.
SourceUpdate == Len(irq_log') = Len(irq_log) + 1

\* C26 as stated: a source update notifies the CPU interrupt line if the
\* recomputed aggregate differs from its previous value, and sends no
\* notification if the aggregate is unchanged.
C26_NotifyOnChange ==
    [][SourceUpdate =>
          (cpu_writes' = cpu_writes + 1 <=> Aggregate' # Aggregate)]_vars

\* C26 amended: every source update writes the recomputed aggregate to the
\* CPU interrupt line, whether or not it differs from the previous value.
C26_NotifyAlways ==
    [][SourceUpdate =>
          /\ cpu_writes' = cpu_writes + 1
          /\ cpu_irq' = Aggregate']_vars

\* A second source was asserted while one already was: the CPU line has been
\* written twice.
C26_Witness ==
    /\ irq_log = <<(<<"mos6551", 1>>), (<<"tms9929a", 1>>)>>
    /\ cpu_irq = "ASSERT_LINE"
    /\ cpu_writes = 2

\* The source has written its line at least once.
Written(source) == \E k \in 1..Len(irq_log) : irq_log[k][1] = source

\* C28: on the board whose source lines are active-low, each flag holds
\* the logical sense of its line (set exactly when the level last written
\* is 0), and the CPU interrupt input is ASSERT_LINE exactly when at least
\* one flag is set.
C28_ActiveLow ==
    irq_log # <<>> =>
        /\ \A source \in LowSources :
               Written(source) =>
                   (m_irqs[source] = 1 <=> SourceLevel(source) = 0)
        /\ (cpu_irq = "ASSERT_LINE") <=>
               \E source \in LowSources : m_irqs[source] = 1

\* C29: in every state reachable after device_reset, the level last
\* written to the keyboard's IRQ line is 1 exactly when the scancode
\* register is full.
C29_IrqMirrorsBuffer == (irq = 1) <=> m_scancode_reg_full

\* A read command has taken the pending scancode 0x9C: the register is
\* empty and the IRQ line low again.
C29_Witness ==
    /\ nevents = 1 /\ first_byte = 0
    /\ first_full /\ first_code = 156
    /\ pushed = -1
    /\ ~m_scancode_reg_full /\ irq = 0

\* C30: in every reachable state an empty scancode register holds 0x00,
\* so a read command issued with nothing pending arms 0x00.
C30_EmptyReadsZero ==
    /\ ~m_scancode_reg_full => m_last_scancode = 0
    /\ (nevents = 1 /\ first_byte >= 0 /\ first_byte < 128 /\ ~first_full)
           => armed = 0

\* In a second selection a read command found the register empty, the
\* scancode of the first selection having been read, and armed 0x00.
C30_Witness ==
    /\ nsel = 2 /\ nevents = 1
    /\ first_byte = 0 /\ ~first_full /\ first_clean
    /\ armed = 0 /\ m_send_byte = 0

\* C27: for every sequence of select, clock and MOSI writes with levels 0
\* and 1 in which clock and MOSI are written only while selected, the
\* earlier engine (spi_bus) and the later one (spi_slave_device), with a
\* peripheral that gives the same answer in both, show the same MISO level
\* after every write and hand over the same received bytes at the same
\* edges.
C27_RevisionsAgree ==
    /\ read_miso(Self) = miso_r(bus)
    /\ dev_bytes = bus_bytes

\* LSB first, mode 0: both engines handed over 0x81 at the 16th edge of
\* the second selection and now show the first bit of the answer 0x23.
C27_Witness ==
    /\ m_mode = 0 /\ m_data_dir = "SPI_LSB_FIRST"
    /\ nsel = 2 /\ edges = 16
    /\ dev_bytes # <<>> /\ dev_bytes[Len(dev_bytes)] = <<2, 16, 129>>
    /\ bus_bytes = dev_bytes
    /\ m_miso = 1 /\ bus.m_miso = 1
    /\ m_send_byte = 35 /\ bus.m_send_byte = 35

\* C31: in every reachable state the keyboard's protocol state is
\* NotSelected if and only if the device is not selected.
C31_StateTracksSelect == (m_state = "NOT_SELECTED") <=> ~m_selected

\* C32: whatever the counts, the shift registers and the clock level were
\* when the device was deselected and selected again, no byte is handed
\* over before the 16th clock transition of the new selection, and the
\* byte handed over at the 16th is made of the 8 MOSI levels sampled since
\* the selection.
C32_Resync ==
    m_selected =>
        /\ edges < 16 => nevents = 0
        /\ edges = 16 =>
               /\ nevents = 1
               /\ Len(mosi_log) = 8
               /\ handed = FromWire(mosi_log, m_data_dir)

\* LSB first with an idle-high clock: the device was deselected in the
\* middle of a byte and selected again while the clock was active, and
\* the 16th transition since has handed over 0x81.
C32_Witness ==
    /\ m_mode = 2 /\ m_data_dir = "SPI_LSB_FIRST"
    /\ nsel = 2 /\ desel_partial /\ ~sel_idle
    /\ m_selected /\ edges = 16
    /\ nevents = 1 /\ handed = 129

\* C33: write_select (the only writer of m_selected), write_mosi (the
\* only writer of m_mosi), keyboard_w and a sample edge that does not
\* complete a byte never change the MISO level; MISO changes only on a
\* shift edge, on the edge that completes a byte, or through
\* set_miso_byte.
C33_MisoFrame ==
    [][/\ m_selected' # m_selected => m_miso' = m_miso
       /\ m_mosi' # m_mosi => m_miso' = m_miso
       /\ (kind = "kbd" /\ edges' = edges /\ m_selected' = m_selected) =>
              \A state \in Levels, code \in Scancodes :
                  KeyboardW(state, code) => m_miso' = m_miso
       /\ (EdgeStep /\ samples' = samples + 1 /\ nevents' = nevents) =>
              m_miso' = m_miso
       /\ m_miso' # m_miso =>
              \/ EdgeStep /\ samples' = samples
              \/ EdgeStep /\ nevents' = nevents + 1
              \/ \E b \in TxBytes : SetMisoByte(b)]_vars

\* The keyboard was deselected and selected again with MISO left at 1 by
\* the answer 0x9C, and scancode 0x1C was pushed: MISO is still 1.
C33_Witness ==
    /\ kind = "kbd" /\ nsel = 2 /\ m_selected /\ edges = 0
    /\ pushed = 28 /\ m_last_scancode = 28
    /\ m_miso = 1

\* C34: keyboard_w, at any point between two clock edges, leaves the
\* protocol state, both bit counts, both shift registers and MISO
\* unchanged; so the byte the master reads in the second exchange of a
\* read transaction is the scancode armed when the first exchange
\* completed, also when another scancode was pushed in between.
C34_PushKeepsExchange ==
    /\ [][\A state \in Levels, code \in Scancodes :
             KeyboardW(state, code) =>
                 UNCHANGED <<m_state, m_recv_count, m_send_count,
                             m_recv_byte, m_send_byte, m_miso>>]_vars
    /\ []((sel_idle /\ samples = 16 /\ first_byte >= 0 /\ first_byte < 128
               /\ pushed >= 0) =>
              FromWire(miso_log, m_data_dir) = first_code)

\* Scancode 0x1C was pushed while the master was reading 0x9C: the 8 bits
\* it has sampled in the second exchange are those of 0x9C.
C34_Witness ==
    /\ sel_idle /\ samples = 16 /\ first_byte = 0
    /\ first_full /\ first_code = 156
    /\ pushed = 28 /\ m_last_scancode = 28
    /\ miso_log = <<1, 0, 0, 1, 1, 1, 0, 0>>
    /\ m_state = "READY_TO_READ"

\* The master ends the selection at this step.
Deselect == m_selected /\ ~m_selected'

\* The first exchange of the selection was a read command.
ReadTransaction == first_byte >= 0 /\ first_byte < 128

\* C35: when a selection whose first exchange was a read command ends
\* and a scancode was pushed after that exchange completed, whether the
\* master clocked the second exchange before or after the push, the
\* register is full, the IRQ line is 1 and the register holds the
\* scancode pushed last.
C35_PushDuringRead ==
    [][(Deselect /\ ReadTransaction /\ pushed >= 0) =>
          /\ m_scancode_reg_full'
          /\ irq' = 1
          /\ m_last_scancode' = pushed]_vars

\* A read command was answered, 0x9C was pushed after that exchange, the
\* master clocked the whole second exchange and deselected: 0x9C is
\* pending.
C35_Witness ==
    /\ ~m_selected /\ nsel = 1
    /\ read_clean = FALSE /\ pushed = 156
    /\ m_recv_count = 16 /\ m_send_count = 16
    /\ m_scancode_reg_full /\ irq = 1 /\ m_last_scancode = 156
    /\ desel_from = "READY_TO_READ"

\* C36: when the master deselects after the first exchange of a read
\* transaction without having sampled all 8 bits of the second exchange,
\* and nothing was pushed meanwhile, the scancode that was pending is
\* still buffered: the register is full, the IRQ line is 1 and the
\* scancode is unchanged.
C36_AbortedRead ==
    [][(Deselect /\ ReadTransaction /\ first_full /\ samples < 16
           /\ pushed = -1) =>
          /\ m_scancode_reg_full'
          /\ irq' = 1
          /\ m_last_scancode' = first_code]_vars

====
